---- MODULE Spec2Model ----
(***************************************************************************)
(* A model of randomizer.py: the helpers format_list,                      *)
(* format_list_probabilities and get_from_list, the class RandomList and   *)
(* the class RandomGroup.                                                  *)
(*                                                                         *)
(* Python values are modelled as records.  A string s is Str(s).  A dict   *)
(* is a record of kind "dict" that says which of the keys "item" and       *)
(* "probability" it has.  A weighted record of a formatted list is         *)
(* [item |-> v, probability |-> p].  Python lists are sequences.  A list   *)
(* object that two attributes may share (contents and _original_contents   *)
(* after reset_contents) lives in a store and is named by a reference.     *)
(***************************************************************************)
EXTENDS Integers, Sequences, FiniteSets, Bags, TLC

\* ---------------------------------------------------------------- bounds

\* The longest input list given to a constructor or a helper.
MaxLen == 2
\* The largest explicit "probability" of an input record.
MaxWeight == 2
\* Explicit probabilities go down to -MaxNegWeight.
MaxNegWeight == 1
\* The longest list given to a helper function called on its own.
MaxArgLen == 3
\* The longest input list of a RandomList that is a member of a group.
MaxMemberLen == 1
\* the largest amount _adjust_probability is called with, either way
MaxDelta == 3
\* the largest weight a direct call of _adjust_probability may produce
MaxAdjusted == 4

\* ---------------------------------------------------------------- values

Names == <<"a", "b", "c">>

Str(s) == [kind |-> "str", val |-> s]

\* {"item": v, "probability": p}
Dict(v, p) ==
    [kind |-> "dict", has_item |-> TRUE, has_probability |-> TRUE,
     item |-> v, probability |-> p]

\* {"item": v}: a dict without the key "probability"
ItemOnlyDict(v) ==
    [kind |-> "dict", has_item |-> TRUE, has_probability |-> FALSE,
     item |-> v, probability |-> 0]

\* {"probability": p}: a dict without the key "item"
ProbabilityOnlyDict(p) ==
    [kind |-> "dict", has_item |-> FALSE, has_probability |-> TRUE,
     item |-> Str(""), probability |-> p]

Weights == (0 - MaxNegWeight)..MaxWeight

Strs == {Str(Names[i]) : i \in 1..Len(Names)}

WellFormed == {Dict(v, p) : v \in Strs, p \in Weights}

Malformed == {ItemOnlyDict(Str(Names[1])), ProbabilityOnlyDict(MaxWeight)}

SeqsUpTo(S, n) == UNION {[1..k -> S] : k \in 0..n}

Range(s) == {s[i] : i \in 1..Len(s)}

\* ------------------------------------------------------------- helpers

\* randomizer.py line 22: isinstance(item, dict) and "probability" in item
\* and "item" in item
IsWeightedRecord(e) ==
    e.kind = "dict" /\ e.has_probability /\ e.has_item

\* randomizer.py lines 22-29: a weighted record is kept, anything else is
\* wrapped with probability 1.
FormatItem(e) ==
    IF IsWeightedRecord(e)
    THEN [item |-> e.item, probability |-> e.probability]
    ELSE [item |-> e, probability |-> 1]

\* InsertDescending with a sort that is not stable: the record goes before
\* the records of equal key.
RECURSIVE InsertDescendingUnstable(_, _)
InsertDescendingUnstable(rec, sorted) ==
    IF sorted = <<>> THEN <<rec>>
    ELSE IF Head(sorted).probability > rec.probability
         THEN <<Head(sorted)>> \o InsertDescendingUnstable(rec, Tail(sorted))
         ELSE <<rec>> \o sorted

\* One insertion of sorted(..., reverse=True): the record goes after every
\* record whose key is greater than or equal to its own, so that records
\* of equal key keep their order.
RECURSIVE InsertDescending(_, _)
InsertDescending(rec, sorted) ==
    IF sorted = <<>> THEN <<rec>>
    ELSE IF Head(sorted).probability >= rec.probability
         THEN <<Head(sorted)>> \o InsertDescending(rec, Tail(sorted))
         ELSE <<rec>> \o sorted

\* sorted(formatted_list, key=lambda k: k['probability'], reverse=True)
RECURSIVE SortedDescending(_)
SortedDescending(s) ==
    IF s = <<>> THEN <<>>
    ELSE InsertDescending(s[Len(s)], SortedDescending(SubSeq(s, 1, Len(s) - 1)))

format_list(input_list) ==
    SortedDescending([i \in 1..Len(input_list) |-> FormatItem(input_list[i])])

\* Cumulate with the running total never updated.
RECURSIVE CumulateWithoutCarry(_, _)
CumulateWithoutCarry(input_list, cumulative_probability) ==
    IF input_list = <<>> THEN <<>>
    ELSE LET new_probability ==
                 cumulative_probability + Head(input_list).probability
         IN  <<[Head(input_list) EXCEPT !.probability = new_probability]>>
             \o CumulateWithoutCarry(Tail(input_list), cumulative_probability)

\* The loop of format_list_probabilities, with the running total carried.
RECURSIVE Cumulate(_, _)
Cumulate(input_list, cumulative_probability) ==
    IF input_list = <<>> THEN <<>>
    ELSE LET new_probability ==
                 cumulative_probability + Head(input_list).probability
         IN  <<[Head(input_list) EXCEPT !.probability = new_probability]>>
             \o Cumulate(Tail(input_list), new_probability)

format_list_probabilities(input_list) == Cumulate(input_list, 0)

\* The caller's list after format_list_probabilities: line 42 copies each
\* record before line 44 writes the new probability, so it is as given.
InputAfterCopies(input_list) == input_list

\* ScanFrom with target < probability for target <= probability.
RECURSIVE ScanFromStrict(_, _, _)
ScanFromStrict(target, input_list, i) ==
    IF i > Len(input_list) THEN 0
    ELSE IF target < input_list[i].probability THEN i
         ELSE ScanFromStrict(target, input_list, i + 1)

\* The scan of get_from_list: the index of the first record with
\* target <= probability, from index i on; 0 when the loop falls through.
RECURSIVE ScanFrom(_, _, _)
ScanFrom(target, input_list, i) ==
    IF i > Len(input_list) THEN 0
    ELSE IF target <= input_list[i].probability THEN i
         ELSE ScanFrom(target, input_list, i + 1)

NoRecord == [item |-> Str(""), probability |-> 0]

\* get_from_list: the record returned, or the IndexError raised.
get_from_list(target, input_list) ==
    LET i == ScanFrom(target, input_list, 1)
    IN  IF i = 0
        THEN [raised |-> "IndexError: Nothing found", index |-> 0,
              value |-> NoRecord]
        ELSE [raised |-> "", index |-> i, value |-> input_list[i]]

\* deepcopy_list: a fresh list of fresh dicts, equal to the input by value.
deepcopy_list(input_list) == [i \in 1..Len(input_list) |-> input_list[i]]

\* Which objects a list returned by a helper holds: for each element, the
\* index of the element of input_list that is the same object, 0 for an
\* object made by the helper.

\* deepcopy_list holding the elements of input_list themselves.
deepcopy_listSharing(input_list) == [i \in 1..Len(input_list) |-> i]

\* deepcopy_list, line 66: deepcopy makes a new object of every element.
deepcopy_listObjects(input_list) == [i \in 1..Len(input_list) |-> 0]

\* The order sorted() of line 30 leaves the elements of input_list in: the
\* original position of each record of format_list(input_list).
SortedOrder(input_list) ==
    LET keyed == [k \in 1..Len(input_list) |->
                     [item |-> k,
                      probability |-> FormatItem(input_list[k]).probability]]
    IN  [i \in 1..Len(input_list) |-> SortedDescending(keyed)[i].item]

\* format_list, lines 22-29: a weighted record is appended itself (line
\* 23), anything else is put in a new dict.
format_listObjects(input_list) ==
    [i \in 1..Len(input_list) |->
        IF IsWeightedRecord(input_list[SortedOrder(input_list)[i]])
        THEN SortedOrder(input_list)[i]
        ELSE 0]

\* The objects of a list made from the list arg_objects tells of.
Through(arg_objects, result_objects) ==
    [i \in 1..Len(result_objects) |->
        IF result_objects[i] = 0 THEN 0 ELSE arg_objects[result_objects[i]]]

\* ---------------------------------------------------------------- state

VARIABLES
    input,              \* per RandomList: the list given to __init__
    store,              \* per RandomList: its list objects, "own" (built by
                        \* __init__ line 107) and "orig" (the copy of line 109)
    contents_ref,       \* per RandomList: the list object self.contents names
    _offset_contents,   \* per RandomList: self._offset_contents
    base,               \* history: contents as of __init__ or the last reset
    hits,               \* history: the bag of items get_random_and_remove
                        \* has returned since __init__ or the last reset
    caller,             \* per RandomList: the list the caller passed to
                        \* __init__, as the caller sees it now
    objects,            \* per RandomList: for each record of "own" and
                        \* "orig", the index of the caller's element that is
                        \* the same object, 0 when it is no caller's object
    group_input,        \* the list given to RandomGroup.__init__
    lists,              \* RandomGroup.lists
    _offset_lists,      \* RandomGroup._offset_lists
    _original_lists,    \* RandomGroup._original_lists
    last,               \* the last call made and what it returned or raised
    call                \* a call of a helper function: its arguments, its
                        \* result and its list argument after the call

vars ==
    <<input, store, contents_ref, _offset_contents, base, hits, caller,
      objects, group_input, lists, _offset_lists, _original_lists, last, call>>

listVars ==
    <<input, store, contents_ref, _offset_contents, base, hits, caller, objects>>

groupVars == <<group_input, lists, _offset_lists, _original_lists>>

\* The RandomList objects that exist.
RandomLists == DOMAIN store

\* self.contents and self._original_contents of RandomList m
contents(m) == store[m][contents_ref[m]]

_original_contents(m) == store[m].orig

EmptyList == "IndexError: RandomList is empty!"

EmptyGroup == "IndexError: RandomGroup is empty!"

EmptyRange == "ValueError: empty range for randrange()"

NoItemIndex == "IndexError: Could not find index of list item"

NoValue == Str("")

NoCall ==
    [op |-> "none", obj |-> 0, raised |-> "", item |-> NoValue, index |-> 0,
     member |-> 0, amount |-> 0]

Returned(op, obj, item, index, member) ==
    [op |-> op, obj |-> obj, raised |-> "", item |-> item, index |-> index,
     member |-> member, amount |-> 0]

Raised(op, obj, error, member) ==
    [op |-> op, obj |-> obj, raised |-> error, item |-> NoValue, index |-> 0,
     member |-> member, amount |-> 0]

\* ------------------------------------------------------------ RandomList

\* RandomList.__init__, lines 107-109, as the three attributes it sets.
RandomList__init__(input_list) ==
    LET new_contents == format_list(deepcopy_list(input_list))
    IN  [contents |-> new_contents,
         _offset_contents |-> format_list_probabilities(new_contents),
         _original_contents |-> deepcopy_list(new_contents)]

\* FirstWithItem finding the last record with the item instead of the first.
RECURSIVE LastWithItem(_, _, _)
LastWithItem(the_contents, input_item, i) ==
    IF i > Len(the_contents) THEN 0
    ELSE IF LastWithItem(the_contents, input_item, i + 1) # 0
         THEN LastWithItem(the_contents, input_item, i + 1)
         ELSE IF the_contents[i].item = input_item THEN i ELSE 0

\* Lines 107 and 109 on objects: which records of contents and of
\* _original_contents are objects of the caller's input_list.
RandomList__init__Objects(input_list) ==
    LET copy_objects == deepcopy_listObjects(input_list)
        new_objects ==
            Through(copy_objects, format_listObjects(deepcopy_list(input_list)))
        new_contents == format_list(deepcopy_list(input_list))
    IN  [own |-> new_objects,
         orig |-> Through(new_objects, deepcopy_listObjects(new_contents))]

\* The loop of _get_item_index, lines 112-113: the first index from i on
\* whose record has an item equal to input_item; 0 when there is none.
RECURSIVE FirstWithItem(_, _, _)
FirstWithItem(the_contents, input_item, i) ==
    IF i > Len(the_contents) THEN 0
    ELSE IF the_contents[i].item = input_item THEN i
         ELSE FirstWithItem(the_contents, input_item, i + 1)

\* list.index, line 114: the first index from i on whose record equals rec.
RECURSIVE ListIndex(_, _, _)
ListIndex(the_contents, rec, i) ==
    IF i > Len(the_contents) THEN 0
    ELSE IF the_contents[i] = rec THEN i
         ELSE ListIndex(the_contents, rec, i + 1)

\* _get_item_index: the index returned; 0 when the IndexError is raised.
_get_item_index(the_contents, input_item) ==
    LET found == FirstWithItem(the_contents, input_item, 1)
    IN  IF found = 0 THEN 0 ELSE ListIndex(the_contents, the_contents[found], 1)

RemoveAt(s, i) == SubSeq(s, 1, i - 1) \o SubSeq(s, i + 1, Len(s))

\* AdjustAt with the record removed only when its weight falls below 0.
AdjustAtKeepsZero(the_contents, target_index, adjustment_amount) ==
    LET new_probability ==
            the_contents[target_index].probability + adjustment_amount
    IN  IF new_probability < 0
        THEN RemoveAt(the_contents, target_index)
        ELSE [the_contents EXCEPT ![target_index].probability = new_probability]

\* AdjustAt with the record removed whatever its new weight.
AdjustAtAlwaysRemoves(the_contents, target_index, adjustment_amount) ==
    RemoveAt(the_contents, target_index)

\* AdjustAt with the list sorted by weight again after the change.
AdjustAtSortsAgain(the_contents, target_index, adjustment_amount) ==
    LET new_probability ==
            the_contents[target_index].probability + adjustment_amount
    IN  IF new_probability <= 0
        THEN RemoveAt(the_contents, target_index)
        ELSE SortedDescending(
                 [the_contents EXCEPT ![target_index].probability = new_probability])

\* Lines 119-122 of _adjust_probability on the list object the_contents:
\* the object after the statement.
AdjustAt(the_contents, target_index, adjustment_amount) ==
    LET new_probability ==
            the_contents[target_index].probability + adjustment_amount
    IN  IF new_probability <= 0
        THEN RemoveAt(the_contents, target_index)
        ELSE [the_contents EXCEPT ![target_index].probability = new_probability]

\* _adjust_probability with _offset_contents rebuilt only when a record
\* was removed.
_adjust_probabilityRebuildsOnRemoval(m, target_item, adjustment_amount) ==
    LET target_index == _get_item_index(contents(m), target_item)
        new_contents == AdjustAt(contents(m), target_index, adjustment_amount)
        k == objects[m][contents_ref[m]][target_index]
    IN  /\ target_index # 0
        /\ store' = [store EXCEPT ![m][contents_ref[m]] = new_contents]
        /\ objects' =
               [objects EXCEPT ![m][contents_ref[m]] =
                   IF Len(new_contents) < Len(contents(m))
                   THEN RemoveAt(@, target_index)
                   ELSE @]
        /\ caller' =
               IF k = 0 \/ ~IsWeightedRecord(caller[m][k])
               THEN caller
               ELSE [caller EXCEPT ![m][k].probability = @ + adjustment_amount]
        /\ _offset_contents' =
               IF Len(new_contents) < Len(contents(m))
               THEN [_offset_contents EXCEPT
                        ![m] = format_list_probabilities(new_contents)]
               ELSE _offset_contents
        /\ UNCHANGED contents_ref

\* _adjust_probability: the contents object is changed in place, so
\* _original_contents changes with it when both name the same object, and
\* line 119 changes the record in place, so the caller's record changes
\* with it when it is the same object.
_adjust_probability(m, target_item, adjustment_amount) ==
    LET target_index == _get_item_index(contents(m), target_item)
        new_contents == AdjustAt(contents(m), target_index, adjustment_amount)
        k == objects[m][contents_ref[m]][target_index]
    IN  /\ target_index # 0
        /\ store' = [store EXCEPT ![m][contents_ref[m]] = new_contents]
        /\ objects' =
               [objects EXCEPT ![m][contents_ref[m]] =
                   IF Len(new_contents) < Len(contents(m))
                   THEN RemoveAt(@, target_index)
                   ELSE @]
        /\ caller' =
               IF k = 0 \/ ~IsWeightedRecord(caller[m][k])
               THEN caller
               ELSE [caller EXCEPT ![m][k].probability = @ + adjustment_amount]
        /\ _offset_contents' =
               [_offset_contents EXCEPT ![m] = format_list_probabilities(new_contents)]
        /\ UNCHANGED contents_ref

\* _get_random_probability drawing from 0.
_get_random_probabilityFromZero(offset_list) ==
    0..offset_list[Len(offset_list)].probability

\* _get_random_probability, lines 126-127: the values random.randint(1,
\* range_max) can return; none when the range is empty and randint raises.
_get_random_probability(offset_list) ==
    1..offset_list[Len(offset_list)].probability

\* get_random_outcomes with a default value returned for an empty list.
get_random_outcomesWithDefault(m) ==
    IF Len(contents(m)) = 0
    THEN {[raised |-> "", item |-> NoValue, index |-> 0]}
    ELSE IF _get_random_probability(_offset_contents[m]) = {}
    THEN {[raised |-> EmptyRange, item |-> NoValue, index |-> 0]}
    ELSE {LET got == get_from_list(target_probability, _offset_contents[m])
          IN  [raised |-> got.raised, item |-> got.value.item,
               index |-> got.index] :
          target_probability \in _get_random_probability(_offset_contents[m])}

\* The ways lines 133-136 can end for RandomList m: every draw, with the
\* item returned or the error raised.
get_random_outcomes(m) ==
    IF Len(contents(m)) = 0
    THEN {[raised |-> EmptyList, item |-> NoValue, index |-> 0]}
    ELSE IF _get_random_probability(_offset_contents[m]) = {}
    THEN {[raised |-> EmptyRange, item |-> NoValue, index |-> 0]}
    ELSE {LET got == get_from_list(target_probability, _offset_contents[m])
          IN  [raised |-> got.raised, item |-> got.value.item,
               index |-> got.index] :
          target_probability \in _get_random_probability(_offset_contents[m])}

\* RandomList.get_random
GetRandom(m) ==
    \E o \in get_random_outcomes(m) :
        /\ last' = IF o.raised = ""
                   THEN Returned("get_random", m, o.item, o.index, 0)
                   ELSE Raised("get_random", m, o.raised, 0)
        /\ UNCHANGED <<listVars, groupVars, call>>

\* RandomList.get_random_and_remove
GetRandomAndRemove(m) ==
    \E o \in get_random_outcomes(m) :
        IF o.raised # ""
        THEN /\ last' = Raised("get_random_and_remove", m, o.raised, 0)
             /\ UNCHANGED <<listVars, groupVars, call>>
        ELSE IF _get_item_index(contents(m), o.item) = 0
        THEN /\ last' = Raised("get_random_and_remove", m, NoItemIndex, 0)
             /\ UNCHANGED <<listVars, groupVars, call>>
        ELSE /\ _adjust_probability(m, o.item, -1)
             /\ hits' = [hits EXCEPT ![m] = @ (+) SetToBag({o.item})]
             /\ last' = Returned("get_random_and_remove", m, o.item, o.index, 0)
             /\ UNCHANGED <<input, base, groupVars, call>>

\* RandomList.reset_contents: self.contents = self._original_contents makes
\* contents name the "orig" object; the "own" object is no longer referenced.
ResetContents(m) ==
    /\ contents_ref' = [contents_ref EXCEPT ![m] = "orig"]
    /\ store' = [store EXCEPT ![m].own = <<>>]
    /\ objects' = [objects EXCEPT ![m].own = <<>>]
    /\ _offset_contents' =
           [_offset_contents EXCEPT ![m] = format_list_probabilities(store[m].orig)]
    /\ base' = [base EXCEPT ![m] = store[m].orig]
    /\ hits' = [hits EXCEPT ![m] = EmptyBag]
    /\ last' = Returned("reset_contents", m, NoValue, 0, 0)
    /\ UNCHANGED <<input, caller, groupVars, call>>

\* The items and amounts _adjust_probability is called with directly.
AdjustTargets == {Str(Names[1]), Str(Names[2])}

Deltas == (0 - MaxDelta)..MaxDelta

\* A direct call of RandomList._adjust_probability, as the tests make it.
\* The IndexError of _get_item_index leaves the object as it was. The
\* history restarts from the adjusted contents.
AdjustProbability(m) ==
    \E target_item \in AdjustTargets, adjustment_amount \in Deltas :
        LET target_index == _get_item_index(contents(m), target_item)
        IN  IF target_index = 0
            THEN /\ last' = [Raised("_adjust_probability", m, NoItemIndex, 0)
                                EXCEPT !.item = target_item,
                                       !.amount = adjustment_amount]
                 /\ UNCHANGED <<listVars, groupVars, call>>
            ELSE /\ contents(m)[target_index].probability + adjustment_amount
                        <= MaxAdjusted
                 /\ _adjust_probability(m, target_item, adjustment_amount)
                 /\ base' = [base EXCEPT ![m] = store'[m][contents_ref[m]]]
                 /\ hits' = [hits EXCEPT ![m] = EmptyBag]
                 /\ last' = [Returned("_adjust_probability", m, target_item,
                                      target_index, 0)
                                EXCEPT !.amount = adjustment_amount]
                 /\ UNCHANGED <<input, groupVars, call>>

\* A list of the RandomList after the caller's k-th element was set to
\* the_record: every record that is that object holds the new values.
SeenThrough(the_list, the_objects, k, the_record) ==
    [i \in 1..Len(the_list) |->
        IF the_objects[i] = k THEN the_record ELSE the_list[i]]

\* The caller assigns the item, the weight or both of a weighted record it
\* passed to __init__. _offset_contents holds the copies of line 42.
CallerChangesRecord(m) ==
    \E k \in 1..Len(caller[m]) :
        /\ IsWeightedRecord(caller[m][k])
        /\ \E v \in {caller[m][k].item, Str(Names[Len(Names)])},
              p \in {caller[m][k].probability, 0 - MaxNegWeight, MaxWeight} :
               /\ Dict(v, p) # caller[m][k]
               /\ caller' = [caller EXCEPT ![m][k] = Dict(v, p)]
               /\ store' =
                      [store EXCEPT
                          ![m].own = SeenThrough(@, objects[m].own, k,
                                         [item |-> v, probability |-> p]),
                          ![m].orig = SeenThrough(@, objects[m].orig, k,
                                          [item |-> v, probability |-> p])]
               /\ last' = Returned("caller_changes_record", m, NoValue, k, 0)
               /\ UNCHANGED <<input, contents_ref, _offset_contents, base,
                              hits, objects, groupVars, call>>

\* The caller puts another element in its list. The lists of the
\* RandomList are lists of their own (formatted_list of line 19, sorted of
\* line 30, new_list of line 64).
CallerReplacesElement(m) ==
    \E k \in 1..Len(caller[m]) :
        /\ caller[m][k] # Str(Names[Len(Names)])
        /\ caller' = [caller EXCEPT ![m][k] = Str(Names[Len(Names)])]
        /\ last' = Returned("caller_replaces_element", m, NoValue, k, 0)
        /\ UNCHANGED <<input, store, contents_ref, _offset_contents, base,
                       hits, objects, groupVars, call>>

\* RandomList.get_all_items
get_all_items(m) == [i \in 1..Len(contents(m)) |-> contents(m)[i].item]

\* ----------------------------------------------------------- RandomGroup

\* A reference to RandomList m, as an element of the group's input.
Ref(m) == [kind |-> "RandomList", id |-> m]

\* RandomGroup.get_random, lines 203-207: the member is drawn from
\* _offset_lists, then its own get_random is called.
GroupGetRandom ==
    IF Len(lists) = 0
    THEN /\ last' = Raised("group_get_random", 0, EmptyGroup, 0)
         /\ UNCHANGED <<listVars, groupVars, call>>
    ELSE IF _get_random_probability(_offset_lists) = {}
    THEN /\ last' = Raised("group_get_random", 0, EmptyRange, 0)
         /\ UNCHANGED <<listVars, groupVars, call>>
    ELSE \E target_probability \in _get_random_probability(_offset_lists) :
             LET got == get_from_list(target_probability, _offset_lists)
                 random_list == got.value.item.id
             IN  IF got.raised # ""
                 THEN /\ last' = Raised("group_get_random", 0, got.raised, 0)
                      /\ UNCHANGED <<listVars, groupVars, call>>
                 ELSE \E o \in get_random_outcomes(random_list) :
                          /\ last' =
                                 IF o.raised = ""
                                 THEN Returned("group_get_random", 0, o.item,
                                               o.index, random_list)
                                 ELSE Raised("group_get_random", 0, o.raised,
                                             random_list)
                          /\ UNCHANGED <<listVars, groupVars, call>>

\* get_all_lists reading the deep copies of line 192 instead of the members.
get_all_listsOfCopies ==
    [i \in 1..Len(_original_lists) |->
        [j \in 1..Len(_original_lists[i].item.contents) |->
            _original_lists[i].item.contents[j].item]]

\* RandomGroup.get_all_lists
get_all_lists == [i \in 1..Len(lists) |-> get_all_items(lists[i].item.id)]

\* ------------------------------------------------------- specifications

\* The inputs of RandomList.__init__: plain strings, weighted records and
\* dicts that lack one of the two keys.
RawElements == Strs \cup WellFormed \cup Malformed

RawLists == SeqsUpTo(RawElements, MaxLen)

NoHelperCall ==
    [fn |-> "none", status |-> "none", input_list |-> <<>>, target |-> 0,
     result |-> <<>>, input_after |-> <<>>]

\* One RandomList, built from any input list, and its public methods.
Init ==
    /\ input \in [{1} -> RawLists]
    /\ store = [m \in {1} |->
                   [own |-> RandomList__init__(input[m]).contents,
                    orig |-> RandomList__init__(input[m])._original_contents]]
    /\ contents_ref = [m \in {1} |-> "own"]
    /\ _offset_contents =
           [m \in {1} |-> RandomList__init__(input[m])._offset_contents]
    /\ base = [m \in {1} |-> RandomList__init__(input[m]).contents]
    /\ hits = [m \in {1} |-> EmptyBag]
    /\ caller = input
    /\ objects = [m \in {1} |-> RandomList__init__Objects(input[m])]
    /\ group_input = <<>>
    /\ lists = <<>>
    /\ _offset_lists = <<>>
    /\ _original_lists = <<>>
    /\ last = NoCall
    /\ call = NoHelperCall

Next ==
    \/ \E m \in RandomLists : GetRandom(m)
    \/ \E m \in RandomLists : GetRandomAndRemove(m)
    \/ \E m \in RandomLists : ResetContents(m)

Spec == Init /\ [][Next]_vars

\* The inputs of a RandomList that is adjusted directly: items that can
\* repeat, with weights 1, MaxWeight and below 1.
AdjustElements ==
    {Str(Names[1]), Dict(Str(Names[1]), MaxWeight),
     Dict(Str(Names[2]), 0 - MaxNegWeight)}

AdjustInputs == SeqsUpTo(AdjustElements, MaxLen)

\* One RandomList whose _adjust_probability is also called directly.
InitAdjust ==
    /\ input \in [{1} -> AdjustInputs]
    /\ store = [m \in {1} |->
                   [own |-> RandomList__init__(input[m]).contents,
                    orig |-> RandomList__init__(input[m])._original_contents]]
    /\ contents_ref = [m \in {1} |-> "own"]
    /\ _offset_contents =
           [m \in {1} |-> RandomList__init__(input[m])._offset_contents]
    /\ base = [m \in {1} |-> RandomList__init__(input[m]).contents]
    /\ hits = [m \in {1} |-> EmptyBag]
    /\ caller = input
    /\ objects = [m \in {1} |-> RandomList__init__Objects(input[m])]
    /\ group_input = <<>>
    /\ lists = <<>>
    /\ _offset_lists = <<>>
    /\ _original_lists = <<>>
    /\ last = NoCall
    /\ call = NoHelperCall

NextAdjust ==
    \/ \E m \in RandomLists : GetRandom(m)
    \/ \E m \in RandomLists : GetRandomAndRemove(m)
    \/ \E m \in RandomLists : ResetContents(m)
    \/ \E m \in RandomLists : AdjustProbability(m)

SpecAdjust == InitAdjust /\ [][NextAdjust]_vars

\* The inputs of a RandomList whose caller keeps its list: a string and
\* two weighted records.
CallerElements ==
    {Str(Names[1]), Dict(Str(Names[1]), MaxWeight), Dict(Str(Names[2]), 1)}

CallerInputs == SeqsUpTo(CallerElements, MaxLen)

\* One RandomList and the caller who built it and still holds the input.
InitCaller ==
    /\ input \in [{1} -> CallerInputs]
    /\ store = [m \in {1} |->
                   [own |-> RandomList__init__(input[m]).contents,
                    orig |-> RandomList__init__(input[m])._original_contents]]
    /\ contents_ref = [m \in {1} |-> "own"]
    /\ _offset_contents =
           [m \in {1} |-> RandomList__init__(input[m])._offset_contents]
    /\ base = [m \in {1} |-> RandomList__init__(input[m]).contents]
    /\ hits = [m \in {1} |-> EmptyBag]
    /\ caller = input
    /\ objects = [m \in {1} |-> RandomList__init__Objects(input[m])]
    /\ group_input = <<>>
    /\ lists = <<>>
    /\ _offset_lists = <<>>
    /\ _original_lists = <<>>
    /\ last = NoCall
    /\ call = NoHelperCall

NextCaller ==
    \/ \E m \in RandomLists : GetRandomAndRemove(m)
    \/ \E m \in RandomLists : ResetContents(m)
    \/ \E m \in RandomLists : CallerChangesRecord(m)
    \/ \E m \in RandomLists : CallerReplacesElement(m)

SpecCaller == InitCaller /\ [][NextCaller]_vars

\* A RandomGroup over two RandomLists the caller keeps references to.
Members == {1, 2}

MemberElements == {Str(Names[1]), Str(Names[2]), Dict(Str(Names[3]), 0)}

MemberInputs == SeqsUpTo(MemberElements, MaxMemberLen)

\* The inputs of RandomGroup.__init__: RandomLists, bare or in a weighted
\* record.
GroupElements ==
    {Ref(m) : m \in Members}
    \cup {Dict(Ref(1), 0), Dict(Ref(2), MaxWeight)}

GroupInputs == SeqsUpTo(GroupElements, Cardinality(Members))

\* deepcopy of a RandomList: its three attributes, by value.
DeepCopyOfRandomList(input_list) ==
    [kind |-> "RandomList copy",
     contents |-> RandomList__init__(input_list).contents,
     _offset_contents |-> RandomList__init__(input_list)._offset_contents,
     _original_contents |-> RandomList__init__(input_list)._original_contents]

\* RandomGroup.__init__, lines 190-192, over members just built from
\* member_inputs.
RandomGroup__init__(input_lists, member_inputs) ==
    LET new_lists == format_list(input_lists)
    IN  [lists |-> new_lists,
         _offset_lists |-> format_list_probabilities(new_lists),
         _original_lists |->
             [i \in 1..Len(new_lists) |->
                 [item |-> DeepCopyOfRandomList(member_inputs[new_lists[i].item.id]),
                  probability |-> new_lists[i].probability]]]

InitGroup ==
    /\ input \in [Members -> MemberInputs]
    /\ store = [m \in Members |->
                   [own |-> RandomList__init__(input[m]).contents,
                    orig |-> RandomList__init__(input[m])._original_contents]]
    /\ contents_ref = [m \in Members |-> "own"]
    /\ _offset_contents =
           [m \in Members |-> RandomList__init__(input[m])._offset_contents]
    /\ base = [m \in Members |-> RandomList__init__(input[m]).contents]
    /\ hits = [m \in Members |-> EmptyBag]
    /\ caller = input
    /\ objects = [m \in Members |-> RandomList__init__Objects(input[m])]
    /\ group_input \in GroupInputs
    /\ lists = RandomGroup__init__(group_input, input).lists
    /\ _offset_lists = RandomGroup__init__(group_input, input)._offset_lists
    /\ _original_lists = RandomGroup__init__(group_input, input)._original_lists
    /\ last = NoCall
    /\ call = NoHelperCall

NextGroup ==
    \/ GroupGetRandom
    \/ \E m \in RandomLists : GetRandom(m)
    \/ \E m \in RandomLists : GetRandomAndRemove(m)
    \/ \E m \in RandomLists : ResetContents(m)

SpecGroup == InitGroup /\ [][NextGroup]_vars

\* ------------------------------------------------ the helpers, called

\* Lists of weighted records with any signed weights; the item of the
\* i-th record is the i-th name.
WeightedLists ==
    {[i \in 1..Len(w) |->
         [item |-> Str(Names[((i - 1) % Len(Names)) + 1]), probability |-> w[i]]] :
     w \in SeqsUpTo(Weights, MaxArgLen)}

\* The targets get_from_list is called with: from below every cumulative
\* weight to above every one.
Targets == (0 - MaxNegWeight * MaxArgLen - 1)..(MaxWeight * MaxArgLen + 1)

Pending(fn, input_list, target) ==
    [fn |-> fn, status |-> "pending", input_list |-> input_list,
     target |-> target, result |-> <<>>, input_after |-> input_list]

\* The elements of the lists format_list is called with: plain strings,
\* weighted records of every weight, and dicts that lack a key.
HelperElements ==
    Strs \cup {Dict(Str(Names[Len(Names)]), p) : p \in Weights} \cup Malformed

PendingCalls ==
    {Pending("format_list", l, 0) : l \in SeqsUpTo(HelperElements, MaxArgLen)}
    \cup {Pending("format_list_probabilities", l, 0) : l \in WeightedLists}
    \cup {Pending("get_from_list", format_list_probabilities(l), t) :
          l \in WeightedLists, t \in Targets}

\* A helper is about to be called with arguments from the bounded sets.
InitHelpers ==
    /\ call \in PendingCalls
    /\ input = <<>>
    /\ store = <<>>
    /\ contents_ref = <<>>
    /\ _offset_contents = <<>>
    /\ base = <<>>
    /\ hits = <<>>
    /\ caller = <<>>
    /\ objects = <<>>
    /\ group_input = <<>>
    /\ lists = <<>>
    /\ _offset_lists = <<>>
    /\ _original_lists = <<>>
    /\ last = NoCall

CallFormatList ==
    /\ call.fn = "format_list"
    /\ call.status = "pending"
    /\ call' = [call EXCEPT !.status = "returned",
                            !.result = format_list(call.input_list)]
    /\ UNCHANGED <<listVars, groupVars, last>>

CallFormatListProbabilities ==
    /\ call.fn = "format_list_probabilities"
    /\ call.status = "pending"
    /\ call' = [call EXCEPT !.status = "returned",
                            !.result = format_list_probabilities(call.input_list),
                            !.input_after = InputAfterCopies(call.input_list)]
    /\ UNCHANGED <<listVars, groupVars, last>>

CallGetFromList ==
    /\ call.fn = "get_from_list"
    /\ call.status = "pending"
    /\ call' = [call EXCEPT
                   !.status = IF get_from_list(call.target, call.input_list).raised = ""
                              THEN "returned" ELSE "raised",
                   !.result = get_from_list(call.target, call.input_list)]
    /\ UNCHANGED <<listVars, groupVars, last>>

NextHelpers ==
    \/ CallFormatList
    \/ CallFormatListProbabilities
    \/ CallGetFromList

SpecHelpers == InitHelpers /\ [][NextHelpers]_vars

\* ------------------------------------------------ claims on the helpers

RECURSIVE SumWeights(_)
SumWeights(s) ==
    IF s = <<>> THEN 0 ELSE Head(s).probability + SumWeights(Tail(s))

NonDecreasing(s) ==
    \A i \in 1..Len(s) - 1 : s[i].probability <= s[i + 1].probability

NonIncreasing(s) ==
    \A i \in 1..Len(s) - 1 : s[i].probability >= s[i + 1].probability

Qualifying(target, s) == {i \in 1..Len(s) : s[i].probability >= target}

\* get_from_list returned the first record whose weight is >= target, or
\* raised when there is none.
C7_FirstQualifying ==
    LET q == Qualifying(call.target, call.input_list)
    IN  /\ call.status = "returned" =>
            /\ call.result.index \in q
            /\ \A j \in q : call.result.index <= j
            /\ call.result.value = call.input_list[call.result.index]
        /\ call.status = "raised" <=> q = {}

C7_BeyondLast ==
    \/ call.input_list = <<>>
    \/ call.target > call.input_list[Len(call.input_list)].probability

\* C7 as claimed: get_from_list returns the first record whose cumulative
\* weight is >= target and raises exactly when no record qualifies, that
\* is when seq is empty or target is greater than the last cumulative
\* weight.
C7_RaisesExactlyBeyondLast ==
    (call.fn = "get_from_list" /\ call.status # "pending") =>
        /\ C7_FirstQualifying
        /\ call.status = "raised" <=> C7_BeyondLast

\* C7 amended: it raises exactly when no record qualifies; when the
\* weights of seq are non-decreasing, that is exactly when seq is empty or
\* target is greater than the last cumulative weight.
C7_RaisesExactlyWhenNoneQualifies ==
    (call.fn = "get_from_list" /\ call.status # "pending") =>
        /\ C7_FirstQualifying
        /\ NonDecreasing(call.input_list) =>
               (call.status = "raised" <=> C7_BeyondLast)

C7_Witness ==
    /\ call.fn = "get_from_list"
    /\ call.status = "returned"
    /\ Len(call.input_list) = MaxArgLen
    /\ NonDecreasing(call.input_list)
    /\ call.input_list[1].probability = MaxWeight
    /\ call.target = MaxWeight + 1
    /\ call.result.index = 2
    /\ call.result.value.probability = MaxWeight + 1

C8_PrefixSums ==
    /\ Len(call.result) = Len(call.input_list)
    /\ \A k \in 1..Len(call.result) :
           /\ call.result[k].item = call.input_list[k].item
           /\ call.result[k].probability =
                  SumWeights(SubSeq(call.input_list, 1, k))
    /\ call.result # <<>> =>
           call.result[Len(call.result)].probability = SumWeights(call.input_list)
    /\ call.input_after = call.input_list

\* C8 as claimed: for any signed weights, format_list_probabilities
\* returns a list of the same length and item order whose weights are
\* non-decreasing, whose k-th weight is the sum of the first k input
\* weights and whose last weight is the sum of all of them.
C8_CumulativeNonDecreasing ==
    (call.fn = "format_list_probabilities" /\ call.status = "returned") =>
        /\ C8_PrefixSums
        /\ NonDecreasing(call.result)

\* C8 amended: the same, with the weights non-decreasing when no input
\* weight is negative.
C8_CumulativeNonDecreasingWhenNonNegative ==
    (call.fn = "format_list_probabilities" /\ call.status = "returned") =>
        /\ C8_PrefixSums
        /\ (\A i \in 1..Len(call.input_list) :
                call.input_list[i].probability >= 0) =>
               NonDecreasing(call.result)

C8_Witness ==
    /\ call.fn = "format_list_probabilities"
    /\ call.status = "returned"
    /\ Len(call.input_list) = MaxArgLen
    /\ \A i \in 1..Len(call.input_list) : call.input_list[i].probability >= 0
    /\ \E i \in 1..Len(call.input_list) : call.input_list[i].probability = 0
    /\ call.result[Len(call.result)].probability > MaxWeight

\* What C9 says format_list makes of one input element.
C9_Wrapped(e) ==
    IF e.kind = "dict" /\ e.has_item /\ e.has_probability
    THEN [item |-> e.item, probability |-> e.probability]
    ELSE [item |-> e, probability |-> 1]

Orderings(n) ==
    {p \in [1..n -> 1..n] : \A i, j \in 1..n : p[i] = p[j] => i = j}

\* C9: format_list returns a list of the same length, sorted by
\* non-increasing weight, whose records are the input's elements, each
\* kept when it has both fields and wrapped with weight 1 otherwise, with
\* records of equal weight in their input order.
C9_StableDescending ==
    (call.fn = "format_list" /\ call.status = "returned") =>
        /\ Len(call.result) = Len(call.input_list)
        /\ NonIncreasing(call.result)
        /\ \E p \in Orderings(Len(call.input_list)) :
               /\ \A k \in 1..Len(call.result) :
                      call.result[k] = C9_Wrapped(call.input_list[p[k]])
               /\ \A k, l \in 1..Len(call.result) :
                      (k < l /\ call.result[k].probability = call.result[l].probability)
                          => p[k] < p[l]

C9_Witness ==
    /\ call.fn = "format_list"
    /\ call.status = "returned"
    /\ call.input_list =
           <<Str(Names[1]), Str(Names[2]), Dict(Str(Names[3]), MaxWeight)>>
    /\ call.result =
           <<[item |-> Str(Names[3]), probability |-> MaxWeight],
             [item |-> Str(Names[1]), probability |-> 1],
             [item |-> Str(Names[2]), probability |-> 1]>>

\* ------------------------------------------------- claims on RandomList

Items(s) == {s[i].item : i \in 1..Len(s)}

DistinctItems(s) == \A i, j \in 1..Len(s) : s[i].item = s[j].item => i = j

PositiveWeights(s) == \A i \in 1..Len(s) : s[i].probability > 0

\* The successful get_random_and_remove calls since __init__ or the last
\* reset_contents.
Removals(m) == BagCardinality(hits[m])

\* C1: reset_contents followed by get_all_items gives the items of
\* format_list(construction input), and contents equals
\* format_list(construction input), whatever calls came before.
C1_ResetRestoresInput ==
    \A m \in RandomLists :
        (last.op = "reset_contents" /\ last.obj = m) =>
            /\ contents(m) = format_list(input[m])
            /\ get_all_items(m) =
                   [i \in 1..Len(format_list(input[m])) |->
                       format_list(input[m])[i].item]

\* C2: _original_contents always holds the records it held right after
\* __init__.
C2_OriginalNeverMutated ==
    \A m \in RandomLists :
        _original_contents(m) = RandomList__init__(input[m])._original_contents

\* C3: contents never holds a record whose weight is <= 0.
C3_NoNonPositiveWeight ==
    \A m \in RandomLists : PositiveWeights(contents(m))

\* The precondition of C4: since __init__ or the last reset the list has
\* distinct items and positive weights.
C4_Pre(m) == DistinctItems(base[m]) /\ PositiveWeights(base[m])

C4_Step(m) ==
    LET S == SumWeights(base[m])
    IN  /\ (last'.op = "get_random_and_remove" /\ last'.obj = m) =>
               /\ Len(contents(m)') <= Len(contents(m))
               /\ (C4_Pre(m) /\ Removals(m) < S) =>
                      /\ last'.raised = ""
                      /\ Removals(m)' = Removals(m) + 1
        /\ (/\ last'.op \in {"get_random", "get_random_and_remove"}
            /\ last'.obj = m
            /\ C4_Pre(m)
            /\ Removals(m) = S) =>
               /\ last'.raised = EmptyList
               /\ contents(m)' = contents(m)
               /\ _offset_contents'[m] = _offset_contents[m]

C4_State(m) ==
    C4_Pre(m) =>
        /\ Removals(m) <= SumWeights(base[m])
        /\ (contents(m) = <<>>) <=> (Removals(m) = SumWeights(base[m]))

\* C4: on a list with distinct items and positive weights summing to S,
\* with no reset in between, get_random_and_remove never lengthens
\* contents, each of the first S calls succeeds, contents is empty after
\* exactly S calls, and every later get_random or get_random_and_remove
\* raises 'RandomList is empty!' and changes neither contents nor
\* _offset_contents.
C4_DepletionEmptiesAfterS ==
    /\ [](\A m \in RandomLists : C4_State(m))
    /\ [][\A m \in RandomLists : C4_Step(m)]_vars

C4_Witness ==
    /\ C4_Pre(1)
    /\ SumWeights(base[1]) = MaxLen
    /\ Len(base[1]) = MaxLen
    /\ Removals(1) = MaxLen
    /\ contents(1) = <<>>
    /\ last.op = "get_random_and_remove"
    /\ last.raised = EmptyList

\* C5: get_random on a list whose contents is non-empty succeeds for
\* every draw, returns the item of a record in contents and changes none
\* of contents, _offset_contents and _original_contents.
C5_GetRandomSucceedsAndKeepsState ==
    [][\A m \in RandomLists :
          (last'.op = "get_random" /\ last'.obj = m /\ contents(m) # <<>>) =>
              /\ last'.raised = ""
              /\ last'.item \in Items(contents(m))
              /\ contents(m)' = contents(m)
              /\ _offset_contents'[m] = _offset_contents[m]
              /\ _original_contents(m)' = _original_contents(m)]_vars

\* What C6 says a selection of the record at index i does to a list.
SelectedOnce(s, i) ==
    IF s[i].probability = 1
    THEN RemoveAt(s, i)
    ELSE [s EXCEPT ![i].probability = @ - 1]

C6_SuccessfulRemoval(m) ==
    last'.op = "get_random_and_remove" /\ last'.obj = m /\ last'.raised = ""

\* C6 as claimed: a successful get_random_and_remove lowers by 1 the
\* weight of the record it selected (the record the draw resolved to, whose
\* item it returns), removes it when its weight was 1, and leaves every
\* other record as it was.
C6_SelectedRecordLowered ==
    [][\A m \in RandomLists :
          C6_SuccessfulRemoval(m) =>
              contents(m)' = SelectedOnce(contents(m), last'.index)]_vars

\* A record of base[m] of weight N >= 1 is in contents with weight N - k
\* after k < N selections of its item, and gone after N.
C6_Survives(m) ==
    (DistinctItems(base[m])) =>
        \A b \in 1..Len(base[m]) :
            LET N == base[m][b].probability
                k == CopiesIn(base[m][b].item, hits[m])
                now == [item |-> base[m][b].item, probability |-> N - k]
            IN  N >= 1 =>
                    /\ k <= N
                    /\ k < N => now \in Range(contents(m))
                    /\ k = N => base[m][b].item \notin Items(contents(m))

\* C6 amended: the same, for a list whose items are pairwise distinct.
C6_SelectedRecordLoweredWhenDistinct ==
    /\ [][\A m \in RandomLists :
             (C6_SuccessfulRemoval(m) /\ DistinctItems(contents(m))) =>
                 /\ last'.item = contents(m)[last'.index].item
                 /\ contents(m)' = SelectedOnce(contents(m), last'.index)]_vars
    /\ [](\A m \in RandomLists : C6_Survives(m))

C6_Witness ==
    /\ DistinctItems(base[1])
    /\ Len(base[1]) = MaxLen
    /\ last.op = "get_random_and_remove"
    /\ last.raised = ""
    /\ \E b \in 1..Len(base[1]) :
           /\ base[1][b].item = last.item
           /\ base[1][b].probability = MaxWeight
           /\ CopiesIn(last.item, hits[1]) = MaxWeight
           /\ last.item \notin Items(contents(1))
    /\ contents(1) # <<>>

\* ------------------------------------------------ claims on RandomGroup

\* The members the group holds, in lists order.
GroupMembers == {lists[i].item.id : i \in 1..Len(lists)}

\* C10: get_random on a group whose members are all non-empty succeeds
\* for every pair of draws, returns an item of some member's
\* get_all_items(), and changes neither lists, _offset_lists nor any
\* member's contents.
C10_GroupGetRandomSucceeds ==
    [][(/\ last'.op = "group_get_random"
        /\ lists # <<>>
        /\ \A m \in GroupMembers : contents(m) # <<>>) =>
           /\ last'.raised = ""
           /\ \E m \in GroupMembers : last'.item \in Range(get_all_items(m))
           /\ lists' = lists
           /\ _offset_lists' = _offset_lists
           /\ \A m \in RandomLists : contents(m)' = contents(m)]_vars

\* C12: RandomGroup.get_random raises 'RandomGroup is empty!' when lists
\* is empty; when it selects a member whose contents is empty it raises
\* that member's 'RandomList is empty!', returns no value, and leaves lists,
\* _offset_lists and every member as they were.
C12_GroupPropagatesEmptyMember ==
    [][last'.op = "group_get_random" =>
          /\ lists = <<>> =>
                 /\ last'.raised = EmptyGroup
                 /\ last'.member = 0
          /\ (lists # <<>> /\ last'.member # 0
                  /\ contents(last'.member) = <<>>) =>
                 /\ last'.raised = EmptyList
                 /\ last'.item = NoValue
          /\ last'.raised # "" =>
                 /\ lists' = lists
                 /\ _offset_lists' = _offset_lists
                 /\ \A m \in RandomLists : contents(m)' = contents(m)]_vars

\* The group of two members selected member 1, which the caller had
\* emptied after the group was built, while member 2 still has a record.
C12_Witness ==
    /\ last.op = "group_get_random"
    /\ last.raised = EmptyList
    /\ last.member = 1
    /\ Len(lists) = 2
    /\ base[1] # <<>>
    /\ Removals(1) > 0
    /\ contents(1) = <<>>
    /\ contents(2) # <<>>

\* C13: the group holds the caller's RandomLists themselves: whatever
\* get_random_and_remove and reset_contents calls the caller has made on
\* the members, get_all_lists() has one entry per record of lists, in lists
\* order, each the current get_all_items() of the RandomList the caller
\* passed in.
C13_GroupReadsLiveMembers ==
    /\ Len(get_all_lists) = Len(lists)
    /\ \A i \in 1..Len(lists) :
           \E m \in RandomLists :
               /\ lists[i].item = Ref(m)
               /\ Len(get_all_lists[i]) = Len(contents(m))
               /\ \A j \in 1..Len(contents(m)) :
                      get_all_lists[i][j] = contents(m)[j].item

\* A group of two members: the first was depleted after the group was
\* built, the second was reset, and get_all_lists() shows both.
C13_Witness ==
    /\ Len(lists) = 2
    /\ lists[1].item.id # lists[2].item.id
    /\ _original_lists[1].item.contents # <<>>
    /\ Removals(lists[1].item.id) > 0
    /\ get_all_lists[1] = <<>>
    /\ contents_ref[lists[2].item.id] = "orig"
    /\ get_all_lists[2] # <<>>

\* ------------------------------------------- claims on the caller's input

CallerOps == {"caller_changes_record", "caller_replaces_element"}

\* C14: the RandomList holds copies of what the caller passed in: a change
\* the caller makes to the item or the weight of a record it passed, or to
\* the elements of its list, changes none of contents, _offset_contents
\* and _original_contents; and no call on the RandomList changes the
\* caller's list or records.
C14_DefensiveCopy ==
    [][\A m \in RandomLists :
          /\ (last'.op \in CallerOps /\ last'.obj = m) =>
                 /\ caller'[m] # caller[m]
                 /\ contents(m)' = contents(m)
                 /\ _offset_contents'[m] = _offset_contents[m]
                 /\ _original_contents(m)' = _original_contents(m)
          /\ last'.op \notin CallerOps => caller'[m] = caller[m]]_vars

\* The caller has changed the item and the weight of a record of a list
\* the RandomList was built from and has since had a record removed from.
C14_Witness ==
    /\ last.op = "caller_changes_record"
    /\ IsWeightedRecord(input[1][last.index])
    /\ caller[1][last.index].item # input[1][last.index].item
    /\ caller[1][last.index].probability # input[1][last.index].probability
    /\ Removals(1) > 0
    /\ Len(contents(1)) < Len(base[1])
    /\ contents(1) # <<>>

\* ---------------------------------------- claims on _adjust_probability

\* The first index of s whose record has the item t; 0 when none has.
FirstIndexOf(t, s) ==
    IF \E i \in 1..Len(s) : s[i].item = t
    THEN CHOOSE i \in 1..Len(s) :
             /\ s[i].item = t
             /\ \A j \in 1..(i - 1) : s[j].item # t
    ELSE 0

\* What C11 says adding d to the record at index i of s leaves behind.
C11_Effect(s, i, d, after) ==
    IF s[i].probability + d <= 0
    THEN /\ Len(after) = Len(s) - 1
         /\ \A j \in 1..Len(after) : after[j] = IF j < i THEN s[j] ELSE s[j + 1]
    ELSE /\ Len(after) = Len(s)
         /\ after[i].item = s[i].item
         /\ after[i].probability = s[i].probability + d
         /\ \A j \in 1..Len(s) : j # i => after[j] = s[j]

\* C11: _adjust_probability(target, delta) adds delta to the weight of the
\* first record of contents whose item equals target, removes that record
\* exactly when the new weight is <= 0 and leaves every other record as it
\* was; when no record has the item it raises the not-found IndexError and
\* changes neither contents nor _offset_contents.
C11_AdjustsFirstRecordWithItem ==
    [][\A m \in RandomLists :
          (last'.op = "_adjust_probability" /\ last'.obj = m) =>
              LET i == FirstIndexOf(last'.item, contents(m))
              IN  IF i = 0
                  THEN /\ last'.raised = NoItemIndex
                       /\ contents(m)' = contents(m)
                       /\ _offset_contents'[m] = _offset_contents[m]
                  ELSE /\ last'.raised = ""
                       /\ C11_Effect(contents(m), i, last'.amount,
                                     contents(m)')]_vars

\* Adding MaxDelta to the first of two weight-1 records with one item.
C11_Witness ==
    /\ last.op = "_adjust_probability"
    /\ last.raised = ""
    /\ last.amount = MaxDelta
    /\ last.index = 1
    /\ Len(contents(1)) = 2
    /\ contents(1)[1] = [item |-> last.item, probability |-> 1 + MaxDelta]
    /\ contents(1)[2] = [item |-> last.item, probability |-> 1]

\* C15: in every state reached through __init__, get_random,
\* get_random_and_remove, _adjust_probability and reset_contents,
\* _offset_contents is format_list_probabilities(contents): as long as
\* contents, with the same items in the same order, each weight the sum of
\* the weights of contents up to that record, the last one their total.
C15_OffsetFollowsContents ==
    \A m \in RandomLists :
        /\ _offset_contents[m] = format_list_probabilities(contents(m))
        /\ Len(_offset_contents[m]) = Len(contents(m))
        /\ \A i \in 1..Len(contents(m)) :
               /\ _offset_contents[m][i].item = contents(m)[i].item
               /\ _offset_contents[m][i].probability =
                      SumWeights(SubSeq(contents(m), 1, i))
        /\ contents(m) # <<>> =>
               _offset_contents[m][Len(contents(m))].probability =
                   SumWeights(contents(m))

\* A weight was raised after a reset, on a list of two records whose
\* weights are no longer in descending order.
C15_Witness ==
    /\ last.op = "_adjust_probability"
    /\ last.raised = ""
    /\ last.amount > 0
    /\ contents_ref[1] = "orig"
    /\ Len(contents(1)) = 2
    /\ last.index = 2
    /\ contents(1)[1].probability < contents(1)[2].probability
    /\ _offset_contents[1][2].probability = SumWeights(contents(1))

\* ------------------------------------------------- claims on selection

\* The draws of _get_random_probability that get_from_list resolves to
\* the record at index i of RandomList m.
C16_DrawsOf(m, i) ==
    {t \in _get_random_probability(_offset_contents[m]) :
        /\ get_from_list(t, _offset_contents[m]).raised = ""
        /\ get_from_list(t, _offset_contents[m]).index = i}

\* C16: on a RandomList whose records all have positive weights, the draws
\* are 1..total weight, get_from_list resolves every one of them to a
\* record, the number of draws resolved to a record is that record's
\* weight, and get_random can return every record's item.
C16_WeightProportional ==
    \A m \in RandomLists :
        (contents(m) # <<>> /\ PositiveWeights(contents(m))) =>
            /\ _get_random_probability(_offset_contents[m]) =
                   1..SumWeights(contents(m))
            /\ \A t \in 1..SumWeights(contents(m)) :
                   /\ get_from_list(t, _offset_contents[m]).raised = ""
                   /\ get_from_list(t, _offset_contents[m]).index
                          \in 1..Len(contents(m))
            /\ \A i \in 1..Len(contents(m)) :
                   /\ Cardinality(C16_DrawsOf(m, i)) = contents(m)[i].probability
                   /\ \E o \in get_random_outcomes(m) :
                          /\ o.raised = ""
                          /\ o.index = i
                          /\ o.item = contents(m)[i].item

\* get_random returned the second of two records, whose weight had been
\* raised to MaxAdjusted above the weight 1 of the first.
C16_Witness ==
    /\ last.op = "get_random"
    /\ last.raised = ""
    /\ last.index = 2
    /\ Len(contents(1)) = 2
    /\ contents(1)[1].probability = 1
    /\ contents(1)[2].probability = MaxAdjusted
    /\ Cardinality(C16_DrawsOf(1, 2)) = MaxAdjusted

\* ------------------------------------------------- claims on depletion

\* a can be had from b by leaving elements out.
RECURSIVE IsSubsequence(_, _)
IsSubsequence(a, b) ==
    IF a = <<>> THEN TRUE
    ELSE IF b = <<>> THEN FALSE
    ELSE IF Head(a) = Head(b) THEN IsSubsequence(Tail(a), Tail(b))
    ELSE IsSubsequence(a, Tail(b))

\* get_all_items() right after RandomList(input[m]) was built.
C17_ItemsAsBuilt(m) ==
    [i \in 1..Len(format_list(input[m])) |-> format_list(input[m])[i].item]

\* C17: as long as reset_contents has not been called, whatever calls of
\* get_random_and_remove were made, get_all_items() is a subsequence of
\* get_all_items() as it was right after construction, and no call of
\* get_random_and_remove makes it anything but a subsequence of what it
\* was before the call.
C17_DepletionKeepsOrder ==
    /\ [](\A m \in RandomLists :
             contents_ref[m] = "own" =>
                 IsSubsequence(get_all_items(m), C17_ItemsAsBuilt(m)))
    /\ [][\A m \in RandomLists :
             (last'.op = "get_random_and_remove" /\ last'.obj = m) =>
                 IsSubsequence(get_all_items(m)', get_all_items(m))]_vars

\* No reset yet, and a removal has left two records with the lighter one
\* first.
C17_Witness ==
    /\ contents_ref[1] = "own"
    /\ last.op = "get_random_and_remove"
    /\ last.raised = ""
    /\ Removals(1) > 0
    /\ Len(contents(1)) = 2
    /\ contents(1)[1].probability < contents(1)[2].probability
    /\ contents(1)[1].item # contents(1)[2].item
    /\ get_all_items(1) = C17_ItemsAsBuilt(1)

====
